---- MODULE Spec2Model ----
(***************************************************************************)
(* The UserForm component of nextjs/error-handler: a react-hook-form form  *)
(* whose submit handler sends the field values to the submitUserData       *)
(* server action inside a transition and maps the typed result onto        *)
(* per-field errors, a banner (serverError) or a success timestamp.        *)
(***************************************************************************)
EXTENDS Integers, Sequences, FiniteSets, TLC

VARIABLES clientValidation, isPending, submissionTime, serverError,
          values, fieldErrors, isSubmitted, calls

vars == <<clientValidation, isPending, submissionTime, serverError,
          values, fieldErrors, isSubmitted, calls>>

(* ---------------------------- bounds ---------------------------------- *)

\* number of distinct instants new Date() can yield
MaxTime == 2
\* cap on the number of server action calls outstanding at once
MaxInFlight == 2

(* ---------------------------- values ---------------------------------- *)

\* string | null, as <<>> (null) or <<x>>
Null == <<>>
Some(x) == <<x>>

\* JavaScript values held by the form fields
Str(s) == [t |-> "string", v |-> s]
Num(n) == [t |-> "number", v |-> n]
JsNull == [t |-> "null"]
JsUndefined == [t |-> "undefined"]

\* value.toString()
toString(value) == IF value.t = "number" THEN ToString(value.v) ELSE value.v

Fields == {"name", "email", "age", "bio"}

\* Object.entries order of the form values (the order of defaultValues)
FieldOrder == <<"name", "email", "age", "bio">>

defaultValues ==
  [name |-> Str(""), email |-> Str("jdoe@acme.com"), age |-> Num(25),
   bio |-> Str("I'm an American")]

\* what the inputs can hold: the default, or what the user typed
InputValues ==
  [name |-> {Str(""), Str("Ann")},
   email |-> {Str("jdoe@acme.com"), Str("nope")},
   age |-> {Num(25), Str("")},
   bio |-> {Str("I'm an American"), Str("")}]

\* userSchema, field by field
FieldValid(f, v) ==
  CASE f = "name" -> v.t = "string" /\ v.v # ""
    [] f = "email" -> v = Str("jdoe@acme.com")
    [] f = "age" -> v.t = "number"
    [] OTHER -> v.t = "string"

userSchema(data) == \A f \in Fields : FieldValid(f, data[f])

(* ------------------------ server action results ------------------------ *)

Messages == {"m1", "m2"}
Thrown == {"Error: network", "TypeError: fetch failed"}

ErrorMaps == UNION {[D -> Messages] : D \in SUBSET Fields}

ValidationError(errs) == [type |-> "validation", errors |-> errs]
MessageError(ty, m) == [type |-> ty, message |-> m]

Errors ==
  {ValidationError(e) : e \in ErrorMaps}
    \cup {MessageError(ty, m) : ty \in {"database", "permission", "unknown"},
                                m \in Messages}

Returned(result) == [kind |-> "returned", result |-> result]
Threw(err) == [kind |-> "threw", err |-> err]
Waiting == [kind |-> "waiting"]

Outcomes ==
  {Returned([success |-> TRUE])}
    \cup {Returned([success |-> FALSE, error |-> e]) : e \in Errors}
    \cup {Threw(e) : e \in Thrown}

\* ErrorTypeGuards
isZodValidationError(error) == error.type = "validation"
isDatabaseError(error) == error.type = "database"
isPermissionError(error) == error.type = "permission"
isUnknownError(error) == error.type = "unknown"

(* ---------------------------- the form --------------------------------- *)

NoErrors == [f \in Fields |-> Null]

ClientError == [type |-> "invalid", message |-> "Invalid"]

\* a resolver that is installed whatever the switch says
resolver_always(cv) == TRUE

\* resolver: clientValidation ? zodResolver(userSchema) : undefined
resolver(cv) == cv

\* the errors handleSubmit leaves in the form state before it decides
validate(cv, data) ==
  IF resolver(cv)
  THEN [f \in Fields |->
          IF FieldValid(f, data[f]) THEN Null ELSE Some(ClientError)]
  ELSE NoErrors

\* every entry appended, empty or not
buildFormData_unfiltered(data) ==
  [i \in 1..Len(FieldOrder) |-> <<FieldOrder[i], toString(data[FieldOrder[i]])>>]

\* formData.append for every entry that is not null, undefined or ''
RECURSIVE appendEntries(_, _, _)
appendEntries(data, i, formData) ==
  IF i > Len(FieldOrder) THEN formData
  ELSE LET key == FieldOrder[i]
           value == data[key]
       IN appendEntries(data, i + 1,
            IF value # JsNull /\ value # JsUndefined /\ value # Str("")
            THEN Append(formData, <<key, toString(value)>>)
            ELSE formData)

buildFormData(data) == appendEntries(data, 1, <<>>)

\* a submit button that is never disabled
submitEnabled_always == TRUE

\* <Button type="submit" disabled={isPending}>
submitEnabled == ~isPending

\* a pending flag that is cleared on the paths that return only
transitionPending_stuck(remaining, outcome) ==
  Len(remaining) > 0 \/ outcome.kind = "threw"

\* isPending of useTransition once an action has settled
transitionPending(remaining, outcome) == Len(remaining) > 0

RemoveAt(s, i) == SubSeq(s, 1, i - 1) \o SubSeq(s, i + 1, Len(s))

(* ---------------------------- behaviour -------------------------------- *)

Init ==
  /\ clientValidation = FALSE
  /\ isPending = FALSE
  /\ submissionTime = Null
  /\ serverError = Null
  /\ values = defaultValues
  /\ fieldErrors = NoErrors
  /\ isSubmitted = FALSE
  /\ calls = <<>>

\* <Switch onCheckedChange={setClientValidation}>
onCheckedChange ==
  /\ clientValidation' = ~clientValidation
  /\ UNCHANGED <<isPending, submissionTime, serverError, values, fieldErrors,
                 isSubmitted, calls>>

\* typing into an input: field.onChange, re-validated once submitted
onChange ==
  \E f \in Fields : \E v \in InputValues[f] :
    /\ v # values[f]
    /\ values' = [values EXCEPT ![f] = v]
    /\ fieldErrors' =
         IF isSubmitted
         THEN [fieldErrors EXCEPT ![f] =
                 validate(clientValidation, values')[f]]
         ELSE fieldErrors
    /\ UNCHANGED <<clientValidation, isPending, submissionTime, serverError,
                   isSubmitted, calls>>

\* onSubmit without setServerError(null)
onSubmit_keepsBanner(data) ==
  /\ serverError' = serverError
  /\ submissionTime' = Null
  /\ isPending' = TRUE
  /\ calls' = Append(calls, [data |-> data, formData |-> buildFormData(data),
                            outcome |-> Waiting])

\* the part of onSubmit that runs before the server action is awaited
onSubmit(data) ==
  /\ serverError' = Null
  /\ submissionTime' = Null
  /\ isPending' = TRUE
  /\ calls' = Append(calls, [data |-> data, formData |-> buildFormData(data),
                            outcome |-> Waiting])

\* form.handleSubmit(onSubmit)
handleSubmit ==
  /\ submitEnabled
  /\ Len(calls) < MaxInFlight
  /\ fieldErrors' = validate(clientValidation, values)
  /\ isSubmitted' = TRUE
  /\ IF fieldErrors' = NoErrors
     THEN onSubmit(values)
     ELSE UNCHANGED <<isPending, submissionTime, serverError, calls>>
  /\ UNCHANGED <<clientValidation, values>>

\* submitUserData(formData) returns a result or throws
submitUserData ==
  \E i \in 1..Len(calls) : \E o \in Outcomes :
    /\ calls[i].outcome = Waiting
    /\ calls' = [calls EXCEPT ![i].outcome = o]
    /\ UNCHANGED <<clientValidation, isPending, submissionTime, serverError,
                   values, fieldErrors, isSubmitted>>

\* setError that drops the server's message
setErrors_noMessage(errors, errs) ==
  [f \in Fields |->
     IF f \in DOMAIN errs
     THEN Some([type |-> "server", message |-> "Invalid"])
     ELSE errors[f]]

\* form.setError(key, { type: 'server', message: value }) for every entry
setErrors(errors, errs) ==
  [f \in Fields |->
     IF f \in DOMAIN errs
     THEN Some([type |-> "server", message |-> errs[f]])
     ELSE errors[f]]

\* the banner without the thrown error
unexpectedError_bare(err) ==
  "An unexpected error occurred. Please try again. "

\* the banner of the catch block
unexpectedError(err) ==
  "An unexpected error occurred. Please try again. " \o err

\* the success branch without form.reset()
formAfter_noReset(outcome) ==
  IF outcome.kind = "returned" /\ ~outcome.result.success
     /\ isZodValidationError(outcome.result.error)
  THEN [values |-> values,
        errors |-> setErrors(fieldErrors, outcome.result.error.errors),
        isSubmitted |-> isSubmitted]
  ELSE [values |-> values, errors |-> fieldErrors,
        isSubmitted |-> isSubmitted]

\* the form state after the awaited result: values, errors, isSubmitted
formAfter(outcome) ==
  IF outcome.kind = "returned" /\ outcome.result.success
  THEN [values |-> defaultValues, errors |-> NoErrors, isSubmitted |-> FALSE]
  ELSE IF outcome.kind = "returned"
          /\ isZodValidationError(outcome.result.error)
       THEN [values |-> values,
             errors |-> setErrors(fieldErrors, outcome.result.error.errors),
             isSubmitted |-> isSubmitted]
       ELSE [values |-> values, errors |-> fieldErrors,
             isSubmitted |-> isSubmitted]

\* the banner branch without the unknown-error guard
serverErrorAfter_noUnknown(outcome) ==
  IF outcome.kind = "threw" THEN Some(unexpectedError(outcome.err))
  ELSE IF ~outcome.result.success
          /\ ~isZodValidationError(outcome.result.error)
          /\ (\/ isDatabaseError(outcome.result.error)
              \/ isPermissionError(outcome.result.error))
       THEN Some(outcome.result.error.message)
       ELSE serverError

\* serverError after the awaited result
serverErrorAfter(outcome) ==
  IF outcome.kind = "threw" THEN Some(unexpectedError(outcome.err))
  ELSE IF ~outcome.result.success
          /\ ~isZodValidationError(outcome.result.error)
          /\ (\/ isDatabaseError(outcome.result.error)
              \/ isPermissionError(outcome.result.error)
              \/ isUnknownError(outcome.result.error))
       THEN Some(outcome.result.error.message)
       ELSE serverError

\* submissionTime after the awaited result, at instant now
submissionTimeAfter(outcome, now) ==
  IF outcome.kind = "returned" /\ outcome.result.success
  THEN Some(now)
  ELSE submissionTime

\* the rest of the transition callback, after the await
resume ==
  \E i \in 1..Len(calls) : \E now \in 1..MaxTime :
    /\ calls[i].outcome # Waiting
    /\ LET outcome == calls[i].outcome
           form == formAfter(outcome)
       IN /\ values' = form.values
          /\ fieldErrors' = form.errors
          /\ isSubmitted' = form.isSubmitted
          /\ serverError' = serverErrorAfter(outcome)
          /\ submissionTime' = submissionTimeAfter(outcome, now)
          /\ calls' = RemoveAt(calls, i)
          /\ isPending' = transitionPending(calls', outcome)
    /\ UNCHANGED clientValidation

Next ==
  \/ onCheckedChange
  \/ onChange
  \/ handleSubmit
  \/ submitUserData
  \/ resume

Spec == Init /\ [][Next]_vars

\* the server action returns or throws, and the awaiting callback then runs
FairSpec == Spec /\ WF_vars(submitUserData) /\ WF_vars(resume)

(* ---------------------------- properties ------------------------------- *)

\* the step in which the awaited outcome of the one call in flight is handled
Handled == Len(calls) = 1 /\ calls' = <<>> /\ calls[1].outcome # Waiting
TheOutcome == calls[1].outcome
Succeeded(o) == o.kind = "returned" /\ o.result.success
FailedWith(o, types) ==
  o.kind = "returned" /\ ~o.result.success /\ o.result.error.type \in types
IsServerError(e) == e # Null /\ e[1].type = "server"

\* C1: when a submission completes with a successful result, submissionTime
\* becomes non-null, the form values are the default values again and the
\* banner is still null.
C1_SuccessResets ==
  [][(Handled /\ Succeeded(TheOutcome)) =>
       /\ submissionTime' # Null
       /\ values' = defaultValues
       /\ serverError' = Null]_vars

C1_Witness ==
  /\ submissionTime # Null
  /\ serverError = Null
  /\ values = defaultValues
  /\ ~isPending
  /\ ~isSubmitted

\* C2: when a submission completes with a validation error, every key of the
\* errors map gets a field error of type 'server' with that key's message,
\* every other field keeps the error it had, and the banner is still null.
C2_ValidationPerField ==
  [][(Handled /\ FailedWith(TheOutcome, {"validation"})) =>
       LET errs == TheOutcome.result.error.errors
       IN /\ \A f \in DOMAIN errs :
               fieldErrors'[f] = Some([type |-> "server", message |-> errs[f]])
          /\ \A f \in Fields \ DOMAIN errs : fieldErrors'[f] = fieldErrors[f]
          /\ serverError' = Null]_vars

C2_Witness ==
  /\ \E f \in Fields : IsServerError(fieldErrors[f])
                        /\ fieldErrors[f][1].message = "m2"
  /\ \E f \in Fields : fieldErrors[f] = Null
  /\ serverError = Null
  /\ calls = <<>>

\* C3: when a submission completes with a database, permission or unknown
\* error, the banner is exactly that error's message and no field error
\* changes.
C3_BannerIsMessage ==
  [][(Handled /\ FailedWith(TheOutcome, {"database", "permission", "unknown"}))
       => /\ serverError' = Some(TheOutcome.result.error.message)
          /\ fieldErrors' = fieldErrors]_vars

C3_Witness ==
  /\ serverError \in {Some(m) : m \in Messages}
  /\ calls = <<>>
  /\ ~isPending

\* C4: when the server action call throws, the banner is the generic text
\* followed by the error's string form; submissionTime stays null, the form
\* keeps its values and no field error changes.
C4_ThrowGeneric ==
  [][(Handled /\ TheOutcome.kind = "threw") =>
       /\ serverError' =
            Some("An unexpected error occurred. Please try again. "
                   \o TheOutcome.err)
       /\ submissionTime' = Null
       /\ values' = values
       /\ fieldErrors' = fieldErrors
       /\ isSubmitted' = isSubmitted]_vars

C4_Witness ==
  /\ serverError =
       Some("An unexpected error occurred. Please try again. Error: network")
  /\ submissionTime = Null
  /\ values # defaultValues
  /\ calls = <<>>

\* C5: at most one server action call is outstanding, and while one is, the
\* pending flag is true (the submit button is disabled).
C5_SingleInFlight ==
  /\ Len(calls) <= 1
  /\ (Len(calls) = 1 => isPending /\ ~submitEnabled)

C5_Witness ==
  /\ Len(calls) = 1
  /\ calls[1].outcome # Waiting
  /\ isPending

\* C6: a submit with the switch on and values that violate the schema makes
\* no server action call; a submit with the switch off passes the values,
\* valid or not, to onSubmit, which issues the call.
C6_SwitchDecides ==
  [][handleSubmit =>
       /\ (clientValidation /\ ~userSchema(values)) => calls' = calls
       /\ ~clientValidation =>
            /\ Len(calls') = Len(calls) + 1
            /\ calls'[Len(calls')].data = values]_vars

C6_Witness ==
  /\ Len(calls) = 1
  /\ ~userSchema(calls[1].data)
  /\ clientValidation
  /\ \E f \in Fields : fieldErrors[f] = Some(ClientError)

\* C7: after a submission that completes with a validation, database,
\* permission or unknown error, at least one field error is set or the banner
\* is non-null.
C7_ErrorSurfaced ==
  [][(Handled /\ FailedWith(TheOutcome,
                   {"validation", "database", "permission", "unknown"}))
       => \/ \E f \in Fields : fieldErrors'[f] # Null
          \/ serverError' # Null]_vars

\* C8: submissionTime and serverError are never both non-null, and what is
\* non-null after a submission has completed comes from that submission.
C8_NotBoth ==
  /\ [](submissionTime = Null \/ serverError = Null)
  /\ [][Handled =>
          /\ submissionTime' # Null => Succeeded(TheOutcome)
          /\ serverError' # Null => ~Succeeded(TheOutcome)
          /\ (TheOutcome.kind = "returned"
                /\ (Succeeded(TheOutcome)
                      \/ FailedWith(TheOutcome, {"validation"})))
               => serverError' = Null]_vars

C8_Witness ==
  /\ submissionTime # Null
  /\ serverError = Null
  /\ clientValidation
  /\ values # defaultValues
  /\ calls = <<>>

\* C9: a pending submission eventually leaves the pending state, whatever
\* the server action returns or throws.
C9_PendingEnds == isPending ~> (~isPending /\ submitEnabled)

C9_Witness ==
  /\ ~isPending
  /\ calls = <<>>
  /\ isSubmitted
  /\ serverError \in {Some(unexpectedError(e)) : e \in Thrown}

\* C10: the payload of a call holds exactly the fields of the submitted data
\* whose value is not null, undefined or '', once each, as strings.
PayloadKeys(formData) == {formData[i][1] : i \in 1..Len(formData)}
C10_Payload ==
  \A c \in 1..Len(calls) :
    LET data == calls[c].data
        formData == calls[c].formData
        sent == {f \in Fields : data[f].t \notin {"null", "undefined"}
                                  /\ data[f] # Str("")}
    IN /\ PayloadKeys(formData) = sent
       /\ Len(formData) = Cardinality(sent)
       /\ \A i \in 1..Len(formData) :
            formData[i][2] =
              (IF data[formData[i][1]].t = "number"
               THEN ToString(data[formData[i][1]].v)
               ELSE data[formData[i][1]].v)

C10_Witness ==
  /\ Len(calls) = 1
  /\ calls[1].data.name = Str("")
  /\ calls[1].data.age = Num(25)
  /\ calls[1].formData =
       <<<<"email", "jdoe@acme.com">>, <<"age", "25">>,
         <<"bio", "I'm an American">>>>

TypeOK ==
  /\ clientValidation \in BOOLEAN
  /\ isPending \in BOOLEAN
  /\ isSubmitted \in BOOLEAN
  /\ \A f \in Fields : values[f] \in InputValues[f]
  /\ Len(calls) <= MaxInFlight
====
